---- MODULE Spec2Model ----
(***************************************************************************)
(* Model of the crawl engine of src/main.py: one crawl task (crawl_site    *)
(* and the crawl_url coroutines of its batches) writing the task's entry   *)
(* of crawl_results, and one stream reader (stream_results'                *)
(* event_generator) polling that entry.                                    *)
(*                                                                         *)
(* A URL is the record urlparse makes of it: scheme, netloc, and the path  *)
(* split into a stem (a small integer: 0 is "/", n is "/pn") and its       *)
(* final extension.  Two URL strings are equal iff their records are.      *)
(***************************************************************************)
EXTENDS Integers, Sequences, FiniteSets, TLC

(* ------------------------------ bounds --------------------------------- *)

\* hrefs in one fetched page
MaxLinks == 2

\* largest max_urls a request asks for
MaxUrlsBound == 2

\* readings the event loop's clock takes after the first request
MaxTime == 1

(* ------------------------- program constants --------------------------- *)

\* "Process up to 5 URLs concurrently": min(5, queue.qsize())
BatchLimit == 5

\* SKIP_EXTENSIONS
SKIP_EXTENSIONS ==
    { ".jpg", ".jpeg", ".png", ".gif", ".bmp", ".svg", ".webp",
      ".css", ".js", ".ico", ".pdf", ".doc", ".docx", ".xls", ".xlsx",
      ".zip", ".rar", ".tar", ".gz", ".mp3", ".mp4", ".avi", ".mov",
      ".flv", ".wmv", ".woff", ".woff2", ".ttf", ".eot" }

\* "status": None of a record appended at discovery ("Not crawled yet")
NoStatus == -1

(* ------------------------------ inputs --------------------------------- *)

\* stems of the pages of the crawled site: "/", "/p1", "/p2", "/p3"
Stems == {0, 1, 2, 3}

Url(s, n, p, e) == [scheme |-> s, netloc |-> n, path |-> p, ext |-> e]

\* the root URL of the request (CrawlRequest.url, validated to have a
\* scheme and a netloc)
RootUrl == Url("http", "a.test", 0, "")

Href(k, s, n, p, e) == [kind |-> k, scheme |-> s, netloc |-> n, path |-> p, ext |-> e]

\* the href attributes urljoin resolves: relative links to every page of
\* the site, an absolute link to another authority (a subdomain of the
\* root's), and an image whose extension is in upper case
Hrefs ==
    { Href("rel", "", "", p, "") : p \in Stems }
    \cup { Href("abs", "http", "sub.a.test", 0, ""),
           Href("rel", "", "", 1, ".PNG") }

\* an href urlsplit refuses ("http://[": ValueError, Invalid IPv6 URL)
BadHref == Href("bad", "", "", 0, "")

RECURSIVE SeqsUpTo(_, _)
SeqsUpTo(S, n) ==
    IF n = 0 THEN { <<>> }
    ELSE LET shorter == SeqsUpTo(S, n - 1)
         IN  shorter \cup { Append(b, h) : b \in { x \in shorter : Len(x) = n - 1 }, h \in S }

\* the anchors of an HTML page, in document order.  extract_links returns
\* nothing of a page that holds a refused href, whatever its other
\* anchors, so one such page stands for all of them.
Bodies == SeqsUpTo(Hrefs, MaxLinks) \cup { << BadHref >> }

(* --------------------------- pure functions ---------------------------- *)

\* str.lower() on an extension
Lower(e) == IF e = ".PNG" THEN ".png" ELSE e

\* is_valid_url without the test of the authority
Mut_is_valid_url(url, base_domain) ==
    IF Lower(url.ext) \in SKIP_EXTENSIONS
    THEN FALSE
    ELSE url.scheme # ""

\* is_valid_url(url, base_domain)
is_valid_url(url, base_domain) ==
    IF Lower(url.ext) \in SKIP_EXTENSIONS
    THEN FALSE
    ELSE url.netloc = base_domain /\ url.scheme # ""

\* urljoin(base_url, href) raises ValueError (urlsplit: "Invalid IPv6 URL")
UrljoinRaises(href) == href.kind = "bad"

\* urljoin(base_url, href) when it returns
urljoin(base_url, href) ==
    IF href.kind = "abs"
    THEN Url(href.scheme, href.netloc, href.path, href.ext)
    ELSE Url(base_url.scheme, base_url.netloc, href.path, href.ext)

\* extract_links lets the ValueError of urljoin escape
ExtractLinksRaises(html_content) ==
    \E i \in 1..Len(html_content) : UrljoinRaises(html_content[i])

\* every absolute_url extract_links computes
AbsoluteUrls(html_content, base_url) ==
    { urljoin(base_url, html_content[i]) : i \in 1..Len(html_content) }

\* extract_links without the is_valid_url filter
Mut_extract_links(html_content, base_url) ==
    [ i \in 1..Len(html_content) |-> urljoin(base_url, html_content[i]) ]

RECURSIVE extract_links(_, _)
\* extract_links(html_content, base_url): the links list, in document order
extract_links(html_content, base_url) ==
    IF html_content = <<>> THEN <<>>
    ELSE LET absolute_url == urljoin(base_url, Head(html_content))
             rest == extract_links(Tail(html_content), base_url)
         IN  IF is_valid_url(absolute_url, base_url.netloc)
             THEN <<absolute_url>> \o rest
             ELSE rest

\* what fetch_url returns: (None, 0) on an exception, (None, status) for a
\* non-200 or non-HTML response, (content, 200) for an HTML page; html says
\* whether content is an HTML text (truthy) and anchors are its hrefs
Responses ==
    { [html |-> FALSE, anchors |-> <<>>, status |-> s] : s \in {0, 404, 200} }
    \cup { [html |-> TRUE, anchors |-> b, status |-> 200] : b \in Bodies }

Record(u, s) == [url |-> u, status |-> s, new |-> TRUE]

(* ------------------------------- state --------------------------------- *)

VARIABLES
    max_urls,         \* CrawlRequest.max_urls
    pc,               \* where crawl_site is
    discovered_urls,  \* crawl_site's discovered_urls
    crawled_urls,     \* crawl_site's crawled_urls
    queue,            \* crawl_site's asyncio.Queue, front first
    tasks,            \* the crawl_url coroutines given to asyncio.gather
    urls,             \* crawl_results[task_id]["urls"]
    complete,         \* crawl_results[task_id]["complete"]
    extracted,        \* every absolute_url of the extract_links calls that returned
    rpc,              \* where event_generator is
    rpos,             \* how many records its for loop has passed
    sent_urls,        \* event_generator's sent_urls
    yielded,          \* the positions in urls of the records it yielded, in order
    now,              \* asyncio.get_event_loop().time()
    task_ids,         \* the task_id every call of start_crawl returned, in order
    max_urls2,        \* max_urls of the second request
    pc2,              \* where the crawl_site of the second request is
    discovered2,      \* its discovered_urls
    crawled2,         \* its crawled_urls
    queue2,           \* its queue
    tasks2,           \* its crawl_url coroutines
    urls2,            \* crawl_results[task_id]["urls"] of the second request,
                      \* when its task_id is not the first one's
    complete2         \* crawl_results[task_id]["complete"], likewise

vars == << max_urls, pc, discovered_urls, crawled_urls, queue, tasks, urls,
           complete, extracted, rpc, rpos, sent_urls, yielded,
           now, task_ids, max_urls2, pc2, discovered2, crawled2, queue2, tasks2,
           urls2, complete2 >>

crawlVars == << max_urls, pc, discovered_urls, crawled_urls, queue, tasks, urls,
                complete, extracted >>

readerVars == << rpc, rpos, sent_urls, yielded >>

\* the clock, the task_ids handed out and the task of a second request
regVars == << now, task_ids, max_urls2, pc2, discovered2, crawled2, queue2, tasks2,
              urls2, complete2 >>

\* task_id = str(hash(f"{request.url}_{loop.time()}")): the hash of a
\* string made of the URL and the clock reading, so equal for equal URL
\* and reading (collisions of the hash on different strings are left out)
TaskId(url, time) == [url |-> url, time |-> time]

(* ------------------------------ helpers -------------------------------- *)

Min(a, b) == IF a < b THEN a ELSE b

Range(s) == { s[i] : i \in 1..Len(s) }

\* start_crawl has made the registry entry and scheduled crawl_site, for a
\* request whose max_urls is one of caps
InitWith(caps) ==
    /\ max_urls \in caps
    /\ pc = "start"
    /\ discovered_urls = {}
    /\ crawled_urls = {}
    /\ queue = <<>>
    /\ tasks = <<>>
    /\ urls = <<>>
    /\ complete = FALSE
    /\ extracted = {}
    /\ rpc = "none"
    /\ rpos = 0
    /\ sent_urls = {}
    /\ yielded = <<>>
    /\ now = 0
    /\ task_ids = << TaskId(RootUrl, 0) >>
    /\ max_urls2 = 1
    /\ pc2 = "none"
    /\ discovered2 = {}
    /\ crawled2 = {}
    /\ queue2 = <<>>
    /\ tasks2 = <<>>
    /\ urls2 = <<>>
    /\ complete2 = FALSE

Init == InitWith(1..MaxUrlsBound)

\* a request with a max_urls that two rounds of a small site do not reach
InitHighCap == InitWith({MaxUrlsBound + 1})

(* ----------------------------- crawl_site ------------------------------ *)

\* crawl_site up to its loop: the root URL is put in the queue and in
\* discovered_urls
CrawlSiteStart ==
    /\ pc = "start"
    /\ queue' = Append(queue, RootUrl)
    /\ discovered_urls' = discovered_urls \cup {RootUrl}
    /\ pc' = "loop"
    /\ UNCHANGED << max_urls, crawled_urls, tasks, urls, complete, extracted >>
    /\ UNCHANGED readerVars
    /\ UNCHANGED regVars

\* the loop ends one URL below max_urls
Mut_LoopCond_OffByOne(q, crawled, limit) == q # <<>> /\ Cardinality(crawled) + 1 < limit

\* the loop condition without the queue test
Mut_LoopCond_NoQueueTest(q, crawled, limit) == Cardinality(crawled) < limit

\* the loop condition without the max_urls test
Mut_LoopCond_NoLimit(q, crawled, limit) == q # <<>>

\* while not queue.empty() and len(crawled_urls) < max_urls
LoopCond(q, crawled, limit) == q # <<>> /\ Cardinality(crawled) < limit

\* a round takes the whole queue
Mut_BatchSize(q) == Len(q)

\* range(min(5, queue.qsize()))
BatchSize(q) == Min(BatchLimit, Len(q))

\* the coroutines of one round: a crawl_url for every dequeued URL that is
\* not in crawled_urls
NewTasks(taken, crawled) ==
    LET kept == SelectSeq(taken, LAMBDA u : u \notin crawled)
    IN  [ i \in 1..Len(kept) |-> [url |-> kept[i], st |-> "new"] ]

\* the queue keeps the last URL it handed out
Mut_Remaining(q, n) == SubSeq(q, n, Len(q))

\* the queue after n calls of queue.get()
Remaining(q, n) == SubSeq(q, n + 1, Len(q))

\* one pass of the loop body up to asyncio.gather (queue.get never waits
\* on a non-empty queue, so the pass is one step)
DequeueBatch ==
    /\ pc = "loop"
    /\ LoopCond(queue, crawled_urls, max_urls)
    /\ LET n == BatchSize(queue)
           batch == NewTasks(SubSeq(queue, 1, n), crawled_urls)
       IN  /\ queue' = Remaining(queue, n)
           /\ tasks' = batch
           /\ pc' = IF batch # <<>> THEN "gather" ELSE "loop"
    /\ UNCHANGED << max_urls, discovered_urls, crawled_urls, urls, complete, extracted >>
    /\ UNCHANGED readerVars
    /\ UNCHANGED regVars

\* asyncio.gather returns: every coroutine of the round has returned
GatherReturn ==
    /\ pc = "gather"
    /\ \A i \in 1..Len(tasks) : tasks[i].st = "done"
    /\ tasks' = <<>>
    /\ pc' = "loop"
    /\ UNCHANGED << max_urls, discovered_urls, crawled_urls, queue, urls, complete, extracted >>
    /\ UNCHANGED readerVars
    /\ UNCHANGED regVars

\* asyncio.gather re-raises the exception of a coroutine: crawl_site ends
\* without reaching line 124; the other coroutines of the round go on
GatherRaise ==
    /\ pc = "gather"
    /\ \E i \in 1..Len(tasks) : tasks[i].st = "raised"
    /\ pc' = "aborted"
    /\ UNCHANGED << max_urls, discovered_urls, crawled_urls, queue, tasks, urls,
                    complete, extracted >>
    /\ UNCHANGED readerVars
    /\ UNCHANGED regVars

\* the loop ends: crawl_results[task_id]["complete"] = True
MarkComplete ==
    /\ pc = "loop"
    /\ ~LoopCond(queue, crawled_urls, max_urls)
    /\ complete' = TRUE
    /\ pc' = "done"
    /\ UNCHANGED << max_urls, discovered_urls, crawled_urls, queue, tasks, urls, extracted >>
    /\ UNCHANGED readerVars
    /\ UNCHANGED regVars

(* ------------------------------ crawl_url ------------------------------ *)

\* the test without discovered_urls
Mut_IsNewLink(link, discovered, crawled) == link \notin crawled

\* if link not in discovered_urls and link not in crawled_urls
IsNewLink(link, discovered, crawled) ==
    link \notin discovered /\ link \notin crawled

RECURSIVE Mut_AddLinks_NoRecord(_, _, _)
\* a new link goes to discovered_urls and to the queue, not to the results
Mut_AddLinks_NoRecord(links, fr, crawled) ==
    IF links = <<>> THEN fr
    ELSE LET link == Head(links)
             next == IF IsNewLink(link, fr.discovered, crawled)
                     THEN [ discovered |-> fr.discovered \cup {link},
                            queue |-> Append(fr.queue, link),
                            urls |-> fr.urls ]
                     ELSE fr
         IN  Mut_AddLinks_NoRecord(Tail(links), next, crawled)

RECURSIVE Mut_AddLinks_Status0(_, _, _)
\* a new link is recorded with status 0
Mut_AddLinks_Status0(links, fr, crawled) ==
    IF links = <<>> THEN fr
    ELSE LET link == Head(links)
             next == IF IsNewLink(link, fr.discovered, crawled)
                     THEN [ discovered |-> fr.discovered \cup {link},
                            queue |-> Append(fr.queue, link),
                            urls |-> Append(fr.urls, Record(link, 0)) ]
                     ELSE fr
         IN  Mut_AddLinks_Status0(Tail(links), next, crawled)

RECURSIVE AddLinks(_, _, _)
\* the for loop over links: a new link goes to discovered_urls, to the
\* queue and, with status None, to the results.  fr is the frontier
\* [discovered, queue, urls] the loop works on.
AddLinks(links, fr, crawled) ==
    IF links = <<>> THEN fr
    ELSE LET link == Head(links)
             next == IF IsNewLink(link, fr.discovered, crawled)
                     THEN [ discovered |-> fr.discovered \cup {link},
                            queue |-> Append(fr.queue, link),
                            urls |-> Append(fr.urls, Record(link, NoStatus)) ]
                     ELSE fr
         IN  AddLinks(Tail(links), next, crawled)

\* the coroutines start in any order
Mut_MayStart(i) ==
    /\ i \in 1..Len(tasks)
    /\ tasks[i].st = "new"

\* the crawl_url coroutines start in the order gather was given them
MayStart(i) ==
    /\ i \in 1..Len(tasks)
    /\ tasks[i].st = "new"
    /\ \A j \in 1..(i - 1) : tasks[j].st # "new"

\* crawl_url up to its await of fetch_url: return if the URL is in
\* crawled_urls, else add it
CrawlUrlStart(i) ==
    /\ pc \in {"gather", "aborted"}
    /\ MayStart(i)
    /\ IF tasks[i].url \in crawled_urls
       THEN /\ tasks' = [tasks EXCEPT ![i].st = "done"]
            /\ UNCHANGED crawled_urls
       ELSE /\ tasks' = [tasks EXCEPT ![i].st = "fetching"]
            /\ crawled_urls' = crawled_urls \cup {tasks[i].url}
    /\ UNCHANGED << max_urls, pc, discovered_urls, queue, urls, complete, extracted >>
    /\ UNCHANGED readerVars
    /\ UNCHANGED regVars

\* crawl_url from the return of fetch_url to its end: the result is
\* appended, and the links of an HTML page are extracted and added
CrawlUrlFinish(i, resp) ==
    /\ pc \in {"gather", "aborted"}
    /\ i \in 1..Len(tasks)
    /\ tasks[i].st = "fetching"
    /\ LET url == tasks[i].url
           recorded == Append(urls, Record(url, resp.status))
       IN  IF resp.html /\ ExtractLinksRaises(resp.anchors)
           THEN /\ urls' = recorded
                /\ tasks' = [tasks EXCEPT ![i].st = "raised"]
                /\ UNCHANGED << discovered_urls, queue, extracted >>
           ELSE LET links == IF resp.html THEN extract_links(resp.anchors, url) ELSE <<>>
                    fr == AddLinks(links,
                                   [ discovered |-> discovered_urls,
                                     queue |-> queue,
                                     urls |-> recorded ],
                                   crawled_urls)
                IN  /\ discovered_urls' = fr.discovered
                    /\ queue' = fr.queue
                    /\ urls' = fr.urls
                    /\ extracted' = extracted \cup
                           (IF resp.html THEN AbsoluteUrls(resp.anchors, url) ELSE {})
                    /\ tasks' = [tasks EXCEPT ![i].st = "done"]
    /\ UNCHANGED << max_urls, pc, crawled_urls, complete >>
    /\ UNCHANGED readerVars
    /\ UNCHANGED regVars

(* --------------------------- stream_results ---------------------------- *)

\* GET /crawl/{task_id}/stream: event_generator starts with sent_urls empty
StreamResults ==
    /\ rpc = "none"
    /\ rpc' = "scan"
    /\ rpos' = 0
    /\ sent_urls' = {}
    /\ yielded' = <<>>
    /\ UNCHANGED crawlVars
    /\ UNCHANGED regVars

\* the positions the for loop has yet to pass whose url is not in sent_urls
Unsent(from, results, sent) ==
    { j \in (from + 1)..Len(results) : results[j].url \notin sent }

Mut_StreamEnds(done, sent, results) ==
    Cardinality(sent) = Len(results)

\* if complete and len(sent_urls) == len(urls): break
StreamEnds(done, sent, results) ==
    done /\ Cardinality(sent) = Len(results)

SetMin(S) == CHOOSE m \in S : \A n \in S : m <= n

\* event_generator from one suspension to the next: the for loop runs on
\* to the next record whose url is not in sent_urls and yields it; at the
\* end of the list the generator ends or sleeps
ReaderScan ==
    /\ rpc = "scan"
    /\ LET todo == Unsent(rpos, urls, sent_urls)
       IN  IF todo # {}
           THEN LET j == SetMin(todo)
                IN  /\ sent_urls' = sent_urls \cup {urls[j].url}
                    /\ yielded' = Append(yielded, j)
                    /\ rpos' = j
                    /\ UNCHANGED rpc
           ELSE /\ rpc' = IF StreamEnds(complete, sent_urls, urls) THEN "done" ELSE "sleep"
                /\ rpos' = 0
                /\ UNCHANGED << sent_urls, yielded >>
    /\ UNCHANGED crawlVars
    /\ UNCHANGED regVars

\* asyncio.sleep(0.1) returns: the while loop scans the list again
ReaderWake ==
    /\ rpc = "sleep"
    /\ rpc' = "scan"
    /\ UNCHANGED << rpos, sent_urls, yielded >>
    /\ UNCHANGED crawlVars
    /\ UNCHANGED regVars

(* ----------------------------- start_crawl ----------------------------- *)

\* the clock of the event loop moves on
Tick ==
    /\ now < MaxTime
    /\ now' = now + 1
    /\ UNCHANGED << task_ids, max_urls2, pc2, discovered2, crawled2, queue2, tasks2,
                    urls2, complete2 >>
    /\ UNCHANGED crawlVars
    /\ UNCHANGED readerVars

\* the second request got the task_id of the first: both crawl_site write
\* to the one entry crawl_results[task_id]
Shared == Len(task_ids) = 2 /\ task_ids[2] = task_ids[1]

\* crawl_results[task_id]["urls"] as the second crawl_site finds it
Urls2 == IF Shared THEN urls ELSE urls2

\* POST /crawl a second time, for the same URL: the task_id is made from the
\* URL and the clock, crawl_results[task_id] is set to a fresh entry, and
\* crawl_site is scheduled
StartCrawl ==
    /\ pc2 = "none"
    /\ \E m \in 1..MaxUrlsBound : max_urls2' = m
    /\ LET task_id == TaskId(RootUrl, now)
       IN  /\ task_ids' = Append(task_ids, task_id)
           /\ IF task_id = task_ids[1]
              THEN /\ urls' = <<>>
                   /\ complete' = FALSE
                   /\ UNCHANGED << urls2, complete2 >>
              ELSE /\ urls2' = <<>>
                   /\ complete2' = FALSE
                   /\ UNCHANGED << urls, complete >>
    /\ pc2' = "start"
    /\ UNCHANGED << now, discovered2, crawled2, queue2, tasks2 >>
    /\ UNCHANGED << max_urls, pc, discovered_urls, crawled_urls, queue, tasks, extracted >>
    /\ UNCHANGED readerVars

\* crawl_site of the second request, step for step as that of the first
CrawlSiteStart2 ==
    /\ pc2 = "start"
    /\ queue2' = Append(queue2, RootUrl)
    /\ discovered2' = discovered2 \cup {RootUrl}
    /\ pc2' = "loop"
    /\ UNCHANGED << now, task_ids, max_urls2, crawled2, tasks2, urls2, complete2 >>
    /\ UNCHANGED crawlVars
    /\ UNCHANGED readerVars

DequeueBatch2 ==
    /\ pc2 = "loop"
    /\ LoopCond(queue2, crawled2, max_urls2)
    /\ LET n == BatchSize(queue2)
           batch == NewTasks(SubSeq(queue2, 1, n), crawled2)
       IN  /\ queue2' = Remaining(queue2, n)
           /\ tasks2' = batch
           /\ pc2' = IF batch # <<>> THEN "gather" ELSE "loop"
    /\ UNCHANGED << now, task_ids, max_urls2, discovered2, crawled2, urls2, complete2 >>
    /\ UNCHANGED crawlVars
    /\ UNCHANGED readerVars

GatherReturn2 ==
    /\ pc2 = "gather"
    /\ \A i \in 1..Len(tasks2) : tasks2[i].st = "done"
    /\ tasks2' = <<>>
    /\ pc2' = "loop"
    /\ UNCHANGED << now, task_ids, max_urls2, discovered2, crawled2, queue2, urls2,
                    complete2 >>
    /\ UNCHANGED crawlVars
    /\ UNCHANGED readerVars

GatherRaise2 ==
    /\ pc2 = "gather"
    /\ \E i \in 1..Len(tasks2) : tasks2[i].st = "raised"
    /\ pc2' = "aborted"
    /\ UNCHANGED << now, task_ids, max_urls2, discovered2, crawled2, queue2, tasks2,
                    urls2, complete2 >>
    /\ UNCHANGED crawlVars
    /\ UNCHANGED readerVars

MarkComplete2 ==
    /\ pc2 = "loop"
    /\ ~LoopCond(queue2, crawled2, max_urls2)
    /\ IF Shared
       THEN complete' = TRUE /\ UNCHANGED complete2
       ELSE complete2' = TRUE /\ UNCHANGED complete
    /\ pc2' = "done"
    /\ UNCHANGED << now, task_ids, max_urls2, discovered2, crawled2, queue2, tasks2,
                    urls2 >>
    /\ UNCHANGED << max_urls, pc, discovered_urls, crawled_urls, queue, tasks, urls,
                    extracted >>
    /\ UNCHANGED readerVars

\* crawl_url of the second request up to its await of fetch_url
CrawlUrlStart2(i) ==
    /\ pc2 \in {"gather", "aborted"}
    /\ i \in 1..Len(tasks2)
    /\ tasks2[i].st = "new"
    /\ \A j \in 1..(i - 1) : tasks2[j].st # "new"
    /\ IF tasks2[i].url \in crawled2
       THEN /\ tasks2' = [tasks2 EXCEPT ![i].st = "done"]
            /\ UNCHANGED crawled2
       ELSE /\ tasks2' = [tasks2 EXCEPT ![i].st = "fetching"]
            /\ crawled2' = crawled2 \cup {tasks2[i].url}
    /\ UNCHANGED << now, task_ids, max_urls2, pc2, discovered2, queue2, urls2,
                    complete2 >>
    /\ UNCHANGED crawlVars
    /\ UNCHANGED readerVars

\* crawl_url of the second request from the return of fetch_url to its end
CrawlUrlFinish2(i, resp) ==
    /\ pc2 \in {"gather", "aborted"}
    /\ i \in 1..Len(tasks2)
    /\ tasks2[i].st = "fetching"
    /\ LET url == tasks2[i].url
           recorded == Append(Urls2, Record(url, resp.status))
           raises == resp.html /\ ExtractLinksRaises(resp.anchors)
           links == IF resp.html /\ ~raises
                    THEN extract_links(resp.anchors, url) ELSE <<>>
           fr == AddLinks(links,
                          [ discovered |-> discovered2,
                            queue |-> queue2,
                            urls |-> recorded ],
                          crawled2)
       IN  /\ discovered2' = fr.discovered
           /\ queue2' = fr.queue
           /\ IF Shared
              THEN urls' = fr.urls /\ UNCHANGED urls2
              ELSE urls2' = fr.urls /\ UNCHANGED urls
           /\ tasks2' = [tasks2 EXCEPT ![i].st = IF raises THEN "raised" ELSE "done"]
    /\ UNCHANGED << now, task_ids, max_urls2, pc2, crawled2, complete2 >>
    /\ UNCHANGED << max_urls, pc, discovered_urls, crawled_urls, queue, tasks, complete,
                    extracted >>
    /\ UNCHANGED readerVars

(* --------------------------- specifications ---------------------------- *)

CrawlUrlStarts == \E i \in 1..Len(tasks) : CrawlUrlStart(i)

CrawlUrlFinishes == \E i \in 1..Len(tasks), resp \in Responses : CrawlUrlFinish(i, resp)

\* the crawl task alone: no client opens the stream
NextCrawl ==
    \/ CrawlSiteStart
    \/ DequeueBatch
    \/ CrawlUrlStarts
    \/ CrawlUrlFinishes
    \/ GatherReturn
    \/ GatherRaise
    \/ MarkComplete

Next ==
    \/ CrawlSiteStart
    \/ DequeueBatch
    \/ CrawlUrlStarts
    \/ CrawlUrlFinishes
    \/ GatherReturn
    \/ GatherRaise
    \/ MarkComplete
    \/ StreamResults
    \/ ReaderScan
    \/ ReaderWake

Spec == Init /\ [][Next]_vars

CrawlSpec == Init /\ [][NextCrawl]_vars

\* the fairness of the crawl task: the event loop runs every coroutine
\* that is ready, and fetch_url always returns
CrawlFairness ==
    /\ WF_vars(CrawlSiteStart)
    /\ WF_vars(DequeueBatch)
    /\ WF_vars(CrawlUrlStarts)
    /\ WF_vars(CrawlUrlFinishes)
    /\ WF_vars(GatherReturn)
    /\ WF_vars(GatherRaise)
    /\ WF_vars(MarkComplete)

FairCrawlSpec == CrawlSpec /\ CrawlFairness

\* The event loop runs every coroutine that is ready, fetch_url always
\* returns (its timeout bounds the wait), and a started reader is resumed
\* after every yield and every sleep.  Nothing obliges a client to open
\* the stream.
FairSpec ==
    /\ Spec
    /\ CrawlFairness
    /\ WF_vars(ReaderScan)
    /\ WF_vars(ReaderWake)

\* the responses of a site whose pages have one link at most
RegResponses == { r \in Responses : Len(r.anchors) <= 1 }

CrawlUrlFinishesReg ==
    \E i \in 1..Len(tasks), resp \in RegResponses : CrawlUrlFinish(i, resp)

CrawlUrlStarts2 == \E i \in 1..Len(tasks2) : CrawlUrlStart2(i)

CrawlUrlFinishes2 ==
    \E i \in 1..Len(tasks2), resp \in RegResponses : CrawlUrlFinish2(i, resp)

\* two requests for the same URL and their two crawl tasks, on a site whose
\* pages have one link at most
NextReg ==
    \/ CrawlSiteStart
    \/ DequeueBatch
    \/ CrawlUrlStarts
    \/ CrawlUrlFinishesReg
    \/ GatherReturn
    \/ GatherRaise
    \/ MarkComplete
    \/ Tick
    \/ StartCrawl
    \/ CrawlSiteStart2
    \/ DequeueBatch2
    \/ CrawlUrlStarts2
    \/ CrawlUrlFinishes2
    \/ GatherReturn2
    \/ GatherRaise2
    \/ MarkComplete2

RegSpec == Init /\ [][NextReg]_vars

\* a page with links to six pages of the site, "/p1" to "/p6": one more
\* than a round takes
WideBody == [ p \in 1..(BatchLimit + 1) |-> Href("rel", "", "", p, "") ]

\* the responses of a site of such pages: a failed fetch, a page with the
\* six links, a page without links, a page with a refused href
WideResponses ==
    { [html |-> FALSE, anchors |-> <<>>, status |-> 0] }
    \cup { [html |-> TRUE, anchors |-> b, status |-> 200] :
             b \in { WideBody, <<>>, << BadHref >> } }

CrawlUrlFinishesWide ==
    \E i \in 1..Len(tasks), resp \in WideResponses : CrawlUrlFinish(i, resp)

\* the crawl task on a site whose pages link to more pages than a round
\* takes
NextWide ==
    \/ CrawlSiteStart
    \/ DequeueBatch
    \/ CrawlUrlStarts
    \/ CrawlUrlFinishesWide
    \/ GatherReturn
    \/ GatherRaise
    \/ MarkComplete

WideSpec == Init /\ [][NextWide]_vars

\* the crawl task of a request with the higher max_urls
HighCapSpec == InitHighCap /\ [][NextCrawl]_vars

(* ------------------------------- claims -------------------------------- *)

\* base_domain = urlparse(url).netloc of crawl_site
base_domain == RootUrl.netloc

\* the most records a task's log can hold: a result for every page and a
\* pending record for every page but the root
MaxRecords == 2 * Cardinality(Stems)

\* the record at position k of the log has been yielded by the reader
Yielded(k) == k \in Range(yielded)

\* C1: in every reachable state the number of URLs whose fetch has been
\* attempted (crawled_urls) is at most max_urls.
C1_VisitedWithinMax == Cardinality(crawled_urls) <= max_urls

\* C2: a started stream reader yields every record of the log exactly
\* once: no record is yielded twice, and every record appended to the log
\* is eventually yielded.
C2_EveryRecordYieldedOnce ==
    /\ [](\A i, j \in 1..Len(yielded) : i # j => yielded[i] # yielded[j])
    /\ \A k \in 1..MaxRecords :
          (rpc # "none" /\ Len(urls) >= k) ~> Yielded(k)

\* C3: once the task is complete, a started stream reader eventually
\* terminates.
C3_ReaderTerminates == (complete /\ rpc # "none") ~> (rpc = "done")

\* C4: a stream reader never terminates while complete is false, and never
\* terminates while the log holds a record it has not yielded.
C4_NoEarlyTermination ==
    rpc = "done" => (complete /\ \A k \in 1..Len(urls) : Yielded(k))

\* a reader has terminated on a log of a crawled page and its discovery
C4_Witness == rpc = "done" /\ Len(urls) >= 2 /\ Len(yielded) = Len(urls)

\* how often x occurs in the sequence s
Count(s, x) == Cardinality({ i \in 1..Len(s) : s[i] = x })

\* the records of url u with status None, and those with a fetch status
PendingCount(u) ==
    Cardinality({ k \in 1..Len(urls) : urls[k].url = u /\ urls[k].status = NoStatus })

ResultCount(u) ==
    Cardinality({ k \in 1..Len(urls) : urls[k].url = u /\ urls[k].status # NoStatus })

\* the links extract_links examined and is_valid_url rejects, or accepts,
\* for the task's domain
Rejected == { u \in extracted : ~is_valid_url(u, base_domain) }

Offered == { u \in extracted : is_valid_url(u, base_domain) }

\* the queue entries url u has had so far: those in the queue, those
\* handed to the coroutines of the current round, and one for a crawled
\* URL of an earlier round
LifeEntries(u) ==
    Count(queue, u)
    + Cardinality({ i \in 1..Len(tasks) : tasks[i].url = u })
    + (IF u \in crawled_urls /\ \A i \in 1..Len(tasks) : tasks[i].url # u THEN 1 ELSE 0)

\* C5: every started task eventually reaches complete = true, and each
\* round with a non-empty queue marks at least one new URL visited (the
\* batch it hands to gather is not empty and holds no crawled URL).
C5_TaskCompletes ==
    /\ <>complete
    /\ [][(pc = "loop" /\ queue' # queue) =>
            (tasks' # <<>> /\ \A i \in 1..Len(tasks') : tasks'[i].url \notin crawled_urls)]_vars

\* what is left of C5 in the code: a task completes unless a coroutine of
\* a round raised, and every round hands gather a batch of uncrawled URLs
C5_CompletesUnlessAborted ==
    /\ <>(complete \/ pc = "aborted")
    /\ [][(pc = "loop" /\ queue' # queue) =>
            (tasks' # <<>> /\ \A i \in 1..Len(tasks') : tasks'[i].url \notin crawled_urls)]_vars

\* C6: a link extracted from a fetched page that is_valid_url rejects for
\* the task's domain is never in discovered_urls, in the queue or in the
\* result log.
C6_RejectedNeverEnqueued ==
    \A u \in Rejected :
        /\ u \notin discovered_urls
        /\ u \notin Range(queue)
        /\ \A k \in 1..Len(urls) : urls[k].url # u

\* pages have been fetched whose links were rejected for the extension and
\* for the authority, beside a link that was accepted and enqueued
C6_Witness ==
    /\ \E u \in Rejected : Lower(u.ext) \in SKIP_EXTENSIONS
    /\ \E u \in Rejected : u.netloc # base_domain
    /\ \E u \in Offered : u # RootUrl /\ PendingCount(u) = 1

\* C7 as stated: every URL offered for enqueue has had exactly one queue
\* entry and has exactly one pending record.
C7_OnePendingRecord ==
    \A u \in Offered : LifeEntries(u) = 1 /\ PendingCount(u) = 1

\* C7 amended: every URL offered for enqueue has had exactly one queue
\* entry; it has exactly one pending record, unless it is the root URL,
\* which crawl_site enqueues without a record and which has none.
C7_OneEntryOnePendingButRoot ==
    \A u \in Offered :
        /\ LifeEntries(u) = 1
        /\ PendingCount(u) = IF u = RootUrl THEN 0 ELSE 1

\* the two pages the root page links to have been fetched in one round,
\* and their links offered the root URL, each other's URL and a new URL,
\* which waits in the queue
C7_Witness ==
    /\ Len(tasks) = 2
    /\ \A i \in 1..Len(tasks) : tasks[i].st = "done"
    /\ Offered = { Url("http", "a.test", p, "") : p \in Stems }
    /\ Len(queue) = 1

\* C8: crawled_urls is a subset of discovered_urls, every URL of the
\* result log is in discovered_urls, and every URL of the queue is in
\* discovered_urls and not in crawled_urls.
C8_FrontierInvariant ==
    /\ crawled_urls \subseteq discovered_urls
    /\ \A k \in 1..Len(urls) : urls[k].url \in discovered_urls
    /\ \A u \in Range(queue) : u \in discovered_urls /\ u \notin crawled_urls

\* a page is being fetched while a discovered URL waits in the queue
C8_Witness ==
    /\ queue # <<>>
    /\ \E i \in 1..Len(tasks) : tasks[i].st = "fetching"
    /\ Len(urls) >= 3

\* the fetch of the root URL failed: its result has status 0
SeedFailed == \E k \in 1..Len(urls) : urls[k] = Record(RootUrl, 0)

\* C9: when the fetch of the root URL fails with status 0, the log holds
\* exactly that record, discovered_urls is {root}, the queue ends empty,
\* and the task reaches complete = true.
C9_SeedFailure ==
    /\ [](SeedFailed =>
            /\ urls = << Record(RootUrl, 0) >>
            /\ discovered_urls = {RootUrl}
            /\ queue = <<>>)
    /\ SeedFailed ~> complete

\* the task has completed after the failed fetch of the root URL
C9_Witness == SeedFailed /\ complete /\ pc = "done"

\* the in-scope links to pages other than the root; when only the root
\* page has been fetched they are the links of the root page
SeedLinks == Offered \ {RootUrl}

C11_TaskIdsUnique ==
    \A i, j \in 1..Len(task_ids) : i # j => task_ids[i] # task_ids[j]

\* the URLs of the pending records, in the order of the log
RECURSIVE PendingUrls(_)
PendingUrls(results) ==
    IF results = <<>> THEN <<>>
    ELSE IF Head(results).status = NoStatus
         THEN << Head(results).url >> \o PendingUrls(Tail(results))
         ELSE PendingUrls(Tail(results))

\* every URL put in the queue, in the order of the puts: the root, then
\* the links, each of which got its pending record with its put
EnqueueOrder ==
    IF RootUrl \in discovered_urls THEN << RootUrl >> \o PendingUrls(urls) ELSE <<>>

\* C12: the queue is first in, first out: the URLs still in the queue are the
\* last ones enqueued, in the order they were enqueued, and a URL is marked
\* visited only when every URL enqueued before it is marked visited.
C12_BreadthFirst ==
    /\ [](queue = SubSeq(EnqueueOrder, Len(EnqueueOrder) - Len(queue) + 1,
                         Len(EnqueueOrder)))
    /\ [][\A u \in crawled_urls' \ crawled_urls :
            \A k \in 1..Len(EnqueueOrder) :
                EnqueueOrder[k] = u =>
                    \A j \in 1..(k - 1) : EnqueueOrder[j] \in crawled_urls]_vars

\* two URLs of one round are marked visited, the one enqueued later has its
\* result already, the one enqueued first is still being fetched
C12_Witness ==
    /\ Len(tasks) = 2
    /\ tasks[1].st = "fetching"
    /\ tasks[2].st = "done"
    /\ ResultCount(tasks[2].url) = 1
    /\ queue # <<>>

\* the crawl_url coroutines that wait for the fetch of u
InFlight(u) ==
    Cardinality({ i \in 1..Len(tasks) : tasks[i].url = u /\ tasks[i].st = "fetching" })

\* C13: each URL is fetched once at most, however the fetches of a round
\* interleave: a URL never has two records with a status, and a URL that has
\* its record, failed or not, is never being fetched again.
C13_FetchedAtMostOnce ==
    \A u \in discovered_urls : ResultCount(u) + InFlight(u) <= 1

\* a fetch of a linked page failed, the page was offered to the queue by
\* links, the crawl went on after the failure and has ended
C13_Witness ==
    /\ pc = "done"
    /\ \E k \in 1..(Len(urls) - 1) :
           /\ urls[k].status \in {0, 404}
           /\ urls[k].url # RootUrl
           /\ urls[k].url \in Offered
           /\ \E j \in (k + 1)..Len(urls) : urls[j] = Record(urls[j].url, 200)

\* C14: complete goes from false to true only, when no round is under way,
\* and once it is true the discovered set, the visited set, the queue and
\* the result log of the task stay as they are.
C14_CompleteIsFinal ==
    [][/\ complete => complete'
       /\ complete => UNCHANGED << discovered_urls, crawled_urls, queue, urls >>
       /\ (~complete /\ complete') => (pc = "loop" /\ tasks = <<>>)]_vars

\* a per-URL step failed: a fetch gave no page, or the link extraction of a
\* fetched page raised
PerUrlFailure ==
    \/ \E k \in 1..Len(urls) : urls[k].status \in {0, 404}
    \/ \E i \in 1..Len(tasks) : tasks[i].st = "raised"

\* C15: a failure of a per-URL step never aborts the task: the URL has its
\* result record, crawl_site is never ended by the failure, and the task
\* still reaches complete = true.
C15_FailureNeverAborts ==
    /\ [](\A i \in 1..Len(tasks) :
            tasks[i].st \in {"done", "raised"} => ResultCount(tasks[i].url) = 1)
    /\ [](pc # "aborted")
    /\ PerUrlFailure ~> complete

\* the crawl_url coroutines of the round that wait for their fetch
Fetching == { i \in 1..Len(tasks) : tasks[i].st = "fetching" }

\* C16: a round hands gather five coroutines at most, so five fetches at most
\* are in flight, and URLs leave the queue only when every coroutine of the
\* round before has returned.
C16_RoundsBounded ==
    /\ [](Len(tasks) <= BatchLimit /\ Cardinality(Fetching) <= BatchLimit)
    /\ [][Len(queue') < Len(queue) =>
            \A i \in 1..Len(tasks) : tasks[i].st = "done"]_vars

\* five fetches are in flight while a sixth URL waits in the queue
C16_Witness == Cardinality(Fetching) = BatchLimit /\ queue # <<>>

\* C17: every URL in discovered_urls, and so every URL fetched, has the
\* authority of the root URL, though extract_links tests a link against the
\* authority of the page it is on.
C17_RootAuthorityOnly ==
    \A u \in discovered_urls \cup crawled_urls : u.netloc = RootUrl.netloc

\* links were extracted from a page other than the root, one of them to
\* another authority, and links of the site were discovered
C17_Witness ==
    /\ \E k \in 1..Len(urls) : urls[k].url # RootUrl /\ urls[k].status = 200
    /\ \E u \in extracted : u.netloc # RootUrl.netloc
    /\ Cardinality(discovered_urls) >= 3

\* every record of u with a status comes after a pending record of u
PendingFirst(u) ==
    \A k \in 1..Len(urls) :
        (urls[k].url = u /\ urls[k].status # NoStatus) =>
            \E j \in 1..(k - 1) : urls[j] = Record(u, NoStatus)

\* C18 as stated: every URL that was enqueued, the root URL too, has a
\* pending record from the moment it is enqueued, before its result record.
C18_PendingAtEnqueue ==
    \A u \in discovered_urls : PendingCount(u) >= 1 /\ PendingFirst(u)

\* C18 amended: every URL enqueued as a link of a fetched page has a pending
\* record from the moment it is enqueued, before its result record; the
\* root URL, which crawl_site enqueues, has no pending record.
C18_PendingAtEnqueueButRoot ==
    \A u \in discovered_urls :
        IF u = RootUrl
        THEN PendingCount(u) = 0
        ELSE PendingCount(u) >= 1 /\ PendingFirst(u)

\* a linked page waits in the queue with its pending record, another has
\* its result record after its pending record, and the root has its result
C18_Witness ==
    /\ ResultCount(RootUrl) = 1
    /\ \E u \in Range(queue) : PendingCount(u) = 1 /\ ResultCount(u) = 0
    /\ \E u \in crawled_urls \ {RootUrl} : PendingCount(u) = 1 /\ ResultCount(u) = 1

\* C19: the task is complete only when the loop condition has failed: the
\* queue is empty or crawled_urls has reached max_urls; and if it is
\* complete below max_urls, every discovered URL is crawled and has its
\* result record.
C19_CompleteOnlyWhenDone ==
    complete =>
        /\ queue = <<>> \/ Cardinality(crawled_urls) >= max_urls
        /\ Cardinality(crawled_urls) < max_urls =>
               \A u \in discovered_urls : u \in crawled_urls /\ ResultCount(u) = 1

\* the task completed below max_urls after it had discovered and crawled a
\* linked page
C19_Witness ==
    /\ complete
    /\ Cardinality(crawled_urls) < max_urls
    /\ Cardinality(discovered_urls) >= 2

\* s is the beginning of t
IsPrefix(s, t) == Len(s) <= Len(t) /\ SubSeq(t, 1, Len(s)) = s

\* C20: the result log of a task only grows at its end: in every step the
\* log before the step is the beginning of the log after it.
C20_LogAppendOnly ==
    [][IsPrefix(urls, urls') /\ IsPrefix(urls2, urls2')]_vars

====
